---- MODULE Spec2Model ----
(***************************************************************************)
(* Model of generate_channel_txn_multithreaded_progress.py: main() splits  *)
(* TOTAL_RECORDS rows over THREADS workers; every worker owns a MySQL      *)
(* connection (autocommit off), inserts its range batch by batch           *)
(* (executemany, commit) and then, under progress_lock, adds the batch     *)
(* size to global_inserted and prints a progress line.                     *)
(*                                                                         *)
(* Steps that touch only thread-local state are folded into the step that  *)
(* precedes them; every database call that changes the session or the      *)
(* table and every access to shared state (the counter, the lock, stdout,  *)
(* the futures) is a step of its own.  Every database call may raise       *)
(* (mysql.connector.Error); nothing in the program catches.                *)
(***************************************************************************)
EXTENDS Integers, Sequences, FiniteSets

\* Bounds of the configurations explored (environment variables of the run).
MaxRecords == 4
MaxThreads == 2
MaxBatch == 2

\* Bounds of the configurations in which main() only builds the ranges.
RangeRecords == 17
RangeThreads == 4

\* Bounds of the configurations with more workers than records.
SparseRecords == 1
SparseThreads == 3

\* Bounds of the configurations whose BATCH_SIZE is not positive.
EmptyBatchRecords == 2
EmptyBatchThreads == 2

\* Bounds of the exploration of runs that do not end: the database calls of
\* a worker and the progress lines printed up to which they are followed.
MaxCalls == 12
MaxLines == 6

VARIABLES
    TOTAL_RECORDS,    \* int(os.getenv("TOTAL_RECORDS"))
    THREADS,          \* int(os.getenv("THREADS"))
    BATCH_SIZE,       \* int(os.getenv("BATCH_SIZE"))
    main_pc,          \* position of main(): submit, as_completed, collect, exit_ok, exit_err, returned, raised
    tasks,            \* main(): the submitted calls, in order (worker_id, start_index, end_index)
    yielded,          \* worker ids whose future as_completed has handed to the loop body
    snapshot,         \* as_completed: the futures already finished when it was called
    completed,        \* as_completed: futures finished since, in finishing order, not yet yielded
    wpc,              \* position of each worker thread
    inserted,         \* insert_worker local `inserted`
    batch,            \* insert_worker local len(batch) of the batch in hand
    pending,          \* rows written in the worker's open transaction, not yet visible
    durable,          \* rows of each worker committed to TARGET_TABLE
    db_calls,         \* executemany and commit calls each worker has issued
    global_inserted,  \* module global
    progress_lock,    \* owner of the lock, NoOwner when free
    loaded,           \* value of global_inserted a worker read for its +=
    percent,          \* insert_worker local `percent`, in hundredths as printed
    left,             \* insert_worker local `left`
    lines,            \* progress lines printed, in order
    unique_checks,    \* UNIQUE_CHECKS of each worker's session (1 is the server default)
    foreign_key_checks, \* FOREIGN_KEY_CHECKS of each worker's session
    closed,           \* the worker has closed its cursor and connection
    error,            \* the call that raised in each worker, "none" if none did
    first_failed,     \* the worker that raised first in time, NoWorker if none
    awaiting          \* workers whose commit returned and that have not yet entered
                      \* `with progress_lock`, in the order of their commits

vars == <<TOTAL_RECORDS, THREADS, BATCH_SIZE, main_pc, tasks, yielded, snapshot,
          completed, wpc, inserted, batch, pending, durable, db_calls,
          global_inserted, progress_lock, loaded, percent, left, lines,
          unique_checks, foreign_key_checks, closed, error, first_failed,
          awaiting>>

cfg == <<TOTAL_RECORDS, THREADS, BATCH_SIZE>>

\* The session state of the workers' connections.
session == <<unique_checks, foreign_key_checks, closed>>

\* What a raising call of a worker changes besides its position.
failure == <<error, first_failed, completed>>

NoWorker == 0

NoOwner == 0

Workers == 1..THREADS

Terminal == {"Done", "Failed"}

Min(a, b) == IF a <= b THEN a ELSE b

RECURSIVE SumUpTo(_, _)
SumUpTo(f, n) == IF n = 0 THEN 0 ELSE f[n] + SumUpTo(f, n - 1)

\* Sum of a per-worker quantity over all workers.
SumWorkers(f) == SumUpTo(f, THREADS)

----------------------------------------------------------------------------
(* main(): the partition *)

\* Defect variant: floor division where the code takes the ceiling.
per_thread_floor == TOTAL_RECORDS \div THREADS

\* math.ceil(TOTAL_RECORDS / THREADS) for TOTAL_RECORDS >= 0, THREADS >= 1
\* (the float quotient is exact enough below 2^53 for ceil to agree).
per_thread == (TOTAL_RECORDS + THREADS - 1) \div THREADS

start_index(i) == i * per_thread

\* Defect variant: the end of the range is not clamped to TOTAL_RECORDS.
end_index_unclamped(i) == (i + 1) * per_thread

end_index(i) == Min((i + 1) * per_thread, TOTAL_RECORDS)

\* Defect variant: the loop index itself is passed as worker_id.
TaskZeroBased(i) == [worker_id |-> i, start_index |-> start_index(i), end_index |-> end_index(i)]

\* The call main() submits for loop index i.
Task(i) == [worker_id |-> i + 1, start_index |-> start_index(i), end_index |-> end_index(i)]

\* insert_worker: total = end_index - start_index
total(w) == tasks[w].end_index - tasks[w].start_index

----------------------------------------------------------------------------
(* insert_worker: the loop *)

\* len(batch) after the generation loop: range(min(BATCH_SIZE, total - inserted)),
\* an empty range when the minimum is not positive.
BatchLen(tot, ins) ==
    IF Min(BATCH_SIZE, tot - ins) > 0 THEN Min(BATCH_SIZE, tot - ins) ELSE 0

\* db_calls once worker w has issued one more call.
CountCall(w) == [db_calls EXCEPT ![w] = @ + 1]

\* stdout once line l has been printed.
Printed(l) == Append(lines, l)

\* `while inserted < total`: where the worker goes from the loop head.
LoopPc(tot, ins) == IF ins < tot THEN "executemany" ELSE "teardown"

\* Python floats are IEEE 754 doubles.  A non-negative double is held as
\* [m |-> bits, s |-> scale]: the bits of a natural number, least
\* significant first, and the value is that number divided by 2^s.  Long
\* division and multiplication work on base-64 digits, six bits at a time.

\* The bit of b at place j, 0 above its length.
BitAt(b, j) == IF j <= Len(b) THEN b[j] ELSE 0

\* The base-64 digits of natural number n, least significant first.
RECURSIVE Digits(_)
Digits(n) == IF n = 0 THEN <<>> ELSE <<n % 64>> \o Digits(n \div 64)

\* The number of bits b.
RECURSIVE FromBits(_)
FromBits(b) == IF b = <<>> THEN 0 ELSE b[1] + 2 * FromBits(Tail(b))

\* The bits of the number of base-64 digits x.
BitsOf(x) ==
    [j \in 1..(6 * Len(x)) |->
        (x[((j - 1) \div 6) + 1] \div <<1, 2, 4, 8, 16, 32>>[((j - 1) % 6) + 1]) % 2]

\* The base-64 digits of the number of bits b.
DigitsOf(b) ==
    [i \in 1..((Len(b) + 5) \div 6) |->
        BitAt(b, 6 * i - 5) + 2 * BitAt(b, 6 * i - 4) + 4 * BitAt(b, 6 * i - 3)
        + 8 * BitAt(b, 6 * i - 2) + 16 * BitAt(b, 6 * i - 1) + 32 * BitAt(b, 6 * i)]

\* The digits of (the number of digits x) * c + carry.
RECURSIVE MulDigits(_, _, _)
MulDigits(x, c, carry) ==
    IF x = <<>> THEN Digits(carry)
    ELSE <<(x[1] * c + carry) % 64>> \o MulDigits(Tail(x), c, (x[1] * c + carry) \div 64)

\* The bits of (the number of bits b) * c.
MulSmall(b, c) == BitsOf(MulDigits(DigitsOf(b), c, 0))

\* Bits b without the zeros at the most significant end.
Trim(b) ==
    IF \E j \in 1..Len(b) : b[j] = 1
    THEN SubSeq(b, 1, CHOOSE j \in 1..Len(b) :
                          b[j] = 1 /\ \A i \in (j + 1)..Len(b) : b[i] = 0)
    ELSE <<>>

\* The bits of (the number of bits b) + 1.
Successor(b) ==
    IF \A j \in 1..Len(b) : b[j] = 1
    THEN [j \in 1..(Len(b) + 1) |-> IF j = Len(b) + 1 THEN 1 ELSE 0]
    ELSE LET z == CHOOSE j \in 1..Len(b) : b[j] = 0 /\ \A i \in 1..(j - 1) : b[i] = 1
         IN  [j \in 1..Len(b) |-> IF j < z THEN 0 ELSE IF j = z THEN 1 ELSE b[j]]

\* The double nearest to the exact value f: 53 significant bits are kept,
\* a tie goes to the even mantissa.
RoundToDouble(f) ==
    LET b == Trim(f.m)
        k == Len(b) - 53
    IN  IF k <= 0
        THEN [m |-> b, s |-> f.s]
        ELSE LET kept == SubSeq(b, k + 1, Len(b))
                 up == /\ b[k] = 1
                       /\ \/ \E j \in 1..(k - 1) : b[j] = 1
                          \/ kept[1] = 1
             IN  [m |-> IF up THEN Successor(kept) ELSE kept, s |-> f.s - k]

\* Long division: the first n base-64 digits of the fraction r / d (r < d),
\* least significant first, below them a digit that is 1 when the fraction
\* goes on after them and 0 when it ends.
RECURSIVE FractionDigits(_, _, _)
FractionDigits(r, d, n) ==
    IF n = 0
    THEN <<IF r = 0 THEN 0 ELSE 1>>
    ELSE FractionDigits((64 * r) % d, d, n - 1) \o <<(64 * r) \div d>>

\* The double a / b for naturals a and b, 0 < b < 2^25: the quotient to 15
\* base-64 places (90 bits, which leaves 53 significant bits and more) and
\* the digit that tells whether it goes on; then rounded.
DoubleDiv(a, b) ==
    RoundToDouble([m |-> BitsOf(FractionDigits(a % b, b, 15) \o Digits(a \div b)),
                   s |-> 96])

\* The double f * 100.
DoubleTimes100(f) == RoundToDouble([m |-> MulSmall(f.m, 100), s |-> f.s])

\* f"{f:.2f}" in hundredths: the exact value of the double rounded to two
\* decimals, a tie to the even digit.
Hundredths(f) ==
    LET h == Trim(MulSmall(f.m, 100))
        n == Len(h)
        whole == IF f.s < n THEN FromBits(SubSeq(h, f.s + 1, n)) ELSE 0
        up == /\ 1 <= f.s
              /\ f.s <= n
              /\ h[f.s] = 1
              /\ \/ \E j \in 1..(f.s - 1) : h[j] = 1
                 \/ whole % 2 = 1
    IN  IF up THEN whole + 1 ELSE whole

\* What is printed for g rows inserted of t: f"{percent:5.2f}" of
\* percent = (g / t) * 100, in hundredths.
PercentOf(g, t) == Hundredths(DoubleTimes100(DoubleDiv(g, t)))

\* PercentOf for the configurations explored, computed once.
PercentTable ==
    [t \in 1..MaxRecords |-> [g \in 0..t |-> PercentOf(g, t)]]

\* f"{percent:5.2f}" of (global_inserted / total_all_threads) * 100, in
\* hundredths, for global_inserted = g.
Percent(g) ==
    IF TOTAL_RECORDS \in 1..MaxRecords /\ g \in 0..TOTAL_RECORDS
    THEN PercentTable[TOTAL_RECORDS][g]
    ELSE PercentOf(g, TOTAL_RECORDS)

\* Defect variant: the counter is updated without taking the lock.
LockFreeUnguarded == TRUE

\* `with progress_lock:` may be entered.
LockFree == progress_lock = NoOwner

----------------------------------------------------------------------------
(* Initial state: the module has been imported, main() is about to run *)

\* The state in which main() is entered, whatever the configuration.
Start ==
    /\ main_pc = "submit"
    /\ tasks = <<>>
    /\ yielded = {}
    /\ wpc = [w \in 1..THREADS |-> "unsubmitted"]
    /\ inserted = [w \in 1..THREADS |-> 0]
    /\ batch = [w \in 1..THREADS |-> 0]
    /\ pending = [w \in 1..THREADS |-> 0]
    /\ durable = [w \in 1..THREADS |-> 0]
    /\ db_calls = [w \in 1..THREADS |-> 0]
    /\ global_inserted = 0
    /\ progress_lock = NoOwner
    /\ loaded = [w \in 1..THREADS |-> 0]
    /\ percent = [w \in 1..THREADS |-> 0]
    /\ left = [w \in 1..THREADS |-> 0]
    /\ lines = <<>>
    /\ snapshot = {}
    /\ completed = <<>>
    /\ unique_checks = [w \in 1..THREADS |-> 1]
    /\ foreign_key_checks = [w \in 1..THREADS |-> 1]
    /\ closed = [w \in 1..THREADS |-> FALSE]
    /\ error = [w \in 1..THREADS |-> "none"]
    /\ first_failed = NoWorker
    /\ awaiting = <<>>

Init ==
    /\ TOTAL_RECORDS \in 0..MaxRecords
    /\ THREADS \in 1..MaxThreads
    /\ BATCH_SIZE \in 1..MaxBatch
    /\ Start

\* Configurations of up to RangeRecords records, for the partition alone.
InitRanges ==
    /\ TOTAL_RECORDS \in 0..RangeRecords
    /\ THREADS \in 1..RangeThreads
    /\ BATCH_SIZE = 1
    /\ Start

\* Configurations whose BATCH_SIZE is zero or negative: int() accepts them.
InitEmptyBatch ==
    /\ TOTAL_RECORDS \in 0..EmptyBatchRecords
    /\ THREADS \in 1..EmptyBatchThreads
    /\ BATCH_SIZE \in {-1, 0}
    /\ Start

\* Configurations in which some workers get no record.
InitSparse ==
    /\ TOTAL_RECORDS \in 0..SparseRecords
    /\ THREADS \in 2..SparseThreads
    /\ BATCH_SIZE = 1
    /\ Start

----------------------------------------------------------------------------
(* main() *)

\* executor.submit(insert_worker, i + 1, start_index, end_index, ...): one
\* iteration of `for i in range(THREADS)`; the pool starts the thread at once.
Submit ==
    /\ main_pc = "submit"
    /\ LET i == Len(tasks) IN
        /\ tasks' = Append(tasks, Task(i))
        /\ wpc' = [wpc EXCEPT ![i + 1] = "connect"]
        /\ main_pc' = IF i + 1 = THREADS THEN "as_completed" ELSE "submit"
    /\ UNCHANGED <<cfg, session, failure, snapshot, awaiting, yielded, inserted,
                   batch, pending, durable, db_calls, global_inserted,
                   progress_lock, loaded, percent, left, lines>>

\* as_completed(tasks) is called: it notes the futures that are finished
\* already and installs its waiter on the others.
StartCollect ==
    /\ main_pc = "as_completed"
    /\ snapshot' = {w \in Workers : wpc[w] \in Terminal}
    /\ main_pc' = "collect"
    /\ UNCHANGED <<cfg, session, failure, awaiting, tasks, yielded, wpc, inserted,
                   batch, pending, durable, db_calls, global_inserted,
                   progress_lock, loaded, percent, left, lines>>

\* Defect variant: the futures are taken in submission order
\* (`for future in tasks`), each once it is finished.
YieldsInSubmissionOrder(w) == \A v \in Workers \ yielded : w <= v

\* The future as_completed yields next may be w: the futures of the
\* snapshot come first, in the order of a set; the others follow in the
\* order in which they finished.  A yielded future leaves the snapshot.
YieldsNext(w) ==
    IF snapshot # {}
    THEN w \in snapshot
    ELSE completed # <<>> /\ w = Head(completed)

\* The futures still queued once w has been yielded.
AfterYield(w) ==
    IF w \in snapshot THEN completed ELSE Tail(completed)

\* Defect variant: the loop body takes every finished future for a result,
\* never calling future.result() on it.
CollectAnyOutcome(w) ==
    /\ main_pc = "collect"
    /\ w \notin yielded
    /\ YieldsNext(w)
    /\ wpc[w] \in {"Done", "Failed"}
    /\ yielded' = yielded \cup {w}
    /\ completed' = AfterYield(w)
    /\ snapshot' = snapshot \ {w}
    /\ main_pc' = IF yielded' = Workers THEN "exit_ok" ELSE "collect"
    /\ UNCHANGED <<cfg, session, error, first_failed, awaiting, tasks,
                   wpc, inserted, batch, pending, durable, db_calls,
                   global_inserted, progress_lock, loaded, percent, left, lines>>

\* as_completed hands over a finished future whose worker returned:
\* future.result() gives (wid, count) and the "finished inserting" line is printed.
CollectResult(w) ==
    /\ main_pc = "collect"
    /\ w \notin yielded
    /\ YieldsNext(w)
    /\ wpc[w] = "Done"
    /\ yielded' = yielded \cup {w}
    /\ completed' = AfterYield(w)
    /\ snapshot' = snapshot \ {w}
    /\ main_pc' = IF yielded' = Workers THEN "exit_ok" ELSE "collect"
    /\ UNCHANGED <<cfg, session, error, first_failed, awaiting, tasks,
                   wpc, inserted, batch, pending, durable, db_calls,
                   global_inserted, progress_lock, loaded, percent, left, lines>>

\* as_completed hands over a finished future whose worker raised:
\* future.result() re-raises inside the `with` block and the generator is
\* dropped with what it had queued.
CollectError(w) ==
    /\ main_pc = "collect"
    /\ w \notin yielded
    /\ YieldsNext(w)
    /\ wpc[w] = "Failed"
    /\ yielded' = yielded \cup {w}
    /\ completed' = <<>>
    /\ snapshot' = {}
    /\ main_pc' = "exit_err"
    /\ UNCHANGED <<cfg, session, error, first_failed, awaiting, tasks,
                   wpc, inserted, batch, pending, durable, db_calls,
                   global_inserted, progress_lock, loaded, percent, left, lines>>

\* Defect variant: the pool is shut down with wait=False.
ShutdownNoWait == TRUE

\* ThreadPoolExecutor.__exit__: shutdown(wait=True) joins every worker thread.
ShutdownWait == \A w \in Workers : wpc[w] \in Terminal

\* Leaving the `with` block normally, then the final summary is printed.
ExitOk ==
    /\ main_pc = "exit_ok"
    /\ ShutdownWait
    /\ main_pc' = "returned"
    /\ UNCHANGED <<cfg, session, failure, snapshot, awaiting, tasks, yielded, wpc,
                   inserted, batch, pending, durable, db_calls, global_inserted,
                   progress_lock, loaded, percent, left, lines>>

\* Leaving the `with` block on the exception, which then leaves main().
ExitErr ==
    /\ main_pc = "exit_err"
    /\ ShutdownWait
    /\ main_pc' = "raised"
    /\ UNCHANGED <<cfg, session, failure, snapshot, awaiting, tasks, yielded, wpc,
                   inserted, batch, pending, durable, db_calls, global_inserted,
                   progress_lock, loaded, percent, left, lines>>

----------------------------------------------------------------------------
(* insert_worker(worker_id = w, ...) *)

\* Defect variant: the error is caught and the worker goes on with its loop.
FailCaught(w) ==
    IF wpc[w] \in {"executemany", "commit"}
    THEN /\ wpc' = [wpc EXCEPT ![w] = "executemany"]
         /\ UNCHANGED failure
    ELSE /\ wpc' = [wpc EXCEPT ![w] = "Failed"]
         /\ error' = [error EXCEPT ![w] = wpc[w]]
         /\ first_failed' = IF first_failed = NoWorker THEN w ELSE first_failed
         /\ completed' = IF main_pc = "collect" THEN Append(completed, w) ELSE completed

\* An uncaught exception leaves insert_worker: the future holds the error
\* and is finished, which as_completed's waiter records.
Fail(w) ==
    /\ wpc' = [wpc EXCEPT ![w] = "Failed"]
    /\ error' = [error EXCEPT ![w] = wpc[w]]
    /\ first_failed' = IF first_failed = NoWorker THEN w ELSE first_failed
    /\ completed' = IF main_pc = "collect" THEN Append(completed, w) ELSE completed

\* mysql.connector.connect(...) and conn.cursor(buffered=True).
Connect(w) ==
    /\ wpc[w] = "connect"
    /\ \/ /\ wpc' = [wpc EXCEPT ![w] = "unique_checks_off"]
          /\ UNCHANGED failure
       \/ Fail(w)
    /\ UNCHANGED <<cfg, session, snapshot, awaiting, main_pc, tasks, yielded,
                   inserted, batch, pending, durable, db_calls, global_inserted,
                   progress_lock, loaded, percent, left, lines>>

\* cur.execute("SET UNIQUE_CHECKS=0;")
UniqueChecksOff(w) ==
    /\ wpc[w] = "unique_checks_off"
    /\ \/ /\ unique_checks' = [unique_checks EXCEPT ![w] = 0]
          /\ wpc' = [wpc EXCEPT ![w] = "foreign_key_checks_off"]
          /\ UNCHANGED failure
       \/ /\ Fail(w)
          /\ UNCHANGED unique_checks
    /\ UNCHANGED <<cfg, foreign_key_checks, closed, snapshot, awaiting, main_pc, tasks, yielded,
                   inserted, batch, pending, durable, db_calls, global_inserted,
                   progress_lock, loaded, percent, left, lines>>

\* cur.execute("SET FOREIGN_KEY_CHECKS=0;")
ForeignKeyChecksOff(w) ==
    /\ wpc[w] = "foreign_key_checks_off"
    /\ \/ /\ foreign_key_checks' = [foreign_key_checks EXCEPT ![w] = 0]
          /\ wpc' = [wpc EXCEPT ![w] = "setup_commit"]
          /\ UNCHANGED failure
       \/ /\ Fail(w)
          /\ UNCHANGED foreign_key_checks
    /\ UNCHANGED <<cfg, unique_checks, closed, snapshot, awaiting, main_pc, tasks, yielded,
                   inserted, batch, pending, durable, db_calls, global_inserted,
                   progress_lock, loaded, percent, left, lines>>

\* conn.commit() of the setup; then total and inserted are set, and the
\* first test of `while inserted < total` and the first batch follow.
SetupCommit(w) ==
    /\ wpc[w] = "setup_commit"
    /\ \/ /\ wpc' = [wpc EXCEPT ![w] = LoopPc(total(w), 0)]
          /\ batch' = [batch EXCEPT ![w] = IF 0 < total(w) THEN BatchLen(total(w), 0) ELSE 0]
          /\ UNCHANGED failure
       \/ /\ Fail(w)
          /\ UNCHANGED batch
    /\ UNCHANGED <<cfg, session, snapshot, awaiting, main_pc, tasks, yielded,
                   inserted, pending, durable, db_calls, global_inserted,
                   progress_lock, loaded, percent, left, lines>>

\* Defect variant: a failed executemany is caught and the batch is sent again
\* on the same transaction.
ExecutemanyRetry(w) ==
    /\ wpc[w] = "executemany"
    /\ db_calls' = CountCall(w)
    /\ \/ /\ pending' = [pending EXCEPT ![w] = @ + batch[w]]
          /\ wpc' = [wpc EXCEPT ![w] = "commit"]
       \/ /\ \E k \in 0..(batch[w] - 1) : pending' = [pending EXCEPT ![w] = @ + k]
          /\ UNCHANGED wpc
    /\ UNCHANGED <<cfg, session, failure, snapshot, awaiting, main_pc, tasks,
                   yielded, inserted, batch, durable, global_inserted,
                   progress_lock, loaded, percent, left, lines>>

\* cur.executemany(insert_sql, batch): all rows written in the open
\* transaction, or an error after only some of them were.
Executemany(w) ==
    /\ wpc[w] = "executemany"
    /\ db_calls' = CountCall(w)
    /\ \/ /\ pending' = [pending EXCEPT ![w] = @ + batch[w]]
          /\ wpc' = [wpc EXCEPT ![w] = "commit"]
          /\ UNCHANGED failure
       \/ /\ \E k \in 0..(batch[w] - 1) : pending' = [pending EXCEPT ![w] = @ + k]
          /\ Fail(w)
    /\ UNCHANGED <<cfg, session, snapshot, awaiting, main_pc, tasks, yielded,
                   inserted, batch, durable, global_inserted, progress_lock,
                   loaded, percent, left, lines>>

\* Defect variant: an error of commit is swallowed and the batch is counted
\* as if it had been committed.
CommitSwallowError(w) ==
    /\ wpc[w] = "commit"
    /\ db_calls' = CountCall(w)
    /\ \/ /\ durable' = [durable EXCEPT ![w] = @ + pending[w]]
          /\ pending' = [pending EXCEPT ![w] = 0]
       \/ UNCHANGED <<durable, pending>>
    /\ inserted' = [inserted EXCEPT ![w] = @ + batch[w]]
    /\ awaiting' = Append(awaiting, w)
    /\ wpc' = [wpc EXCEPT ![w] = "lock"]
    /\ UNCHANGED <<cfg, session, failure, snapshot, main_pc, tasks, yielded,
                   batch, global_inserted, progress_lock, loaded, percent, left,
                   lines>>

\* Defect variant: the session is restored and closed when commit raises
\* (a try/finally around the loop).
CommitFinally(w) ==
    /\ wpc[w] = "commit"
    /\ db_calls' = CountCall(w)
    /\ \/ /\ durable' = [durable EXCEPT ![w] = @ + pending[w]]
          /\ pending' = [pending EXCEPT ![w] = 0]
          /\ inserted' = [inserted EXCEPT ![w] = @ + batch[w]]
          /\ awaiting' = Append(awaiting, w)
          /\ wpc' = [wpc EXCEPT ![w] = "lock"]
          /\ UNCHANGED <<failure, session>>
       \/ /\ Fail(w)
          /\ unique_checks' = [unique_checks EXCEPT ![w] = 1]
          /\ foreign_key_checks' = [foreign_key_checks EXCEPT ![w] = 1]
          /\ closed' = [closed EXCEPT ![w] = TRUE]
          /\ UNCHANGED <<durable, pending, inserted, awaiting>>
    /\ UNCHANGED <<cfg, snapshot, main_pc, tasks, yielded, batch,
                   global_inserted, progress_lock, loaded, percent, left, lines>>

\* conn.commit(); inserted += len(batch).  The transaction becomes visible
\* as a whole, or the commit raises and nothing of it does.
Commit(w) ==
    /\ wpc[w] = "commit"
    /\ db_calls' = CountCall(w)
    /\ \/ /\ durable' = [durable EXCEPT ![w] = @ + pending[w]]
          /\ pending' = [pending EXCEPT ![w] = 0]
          /\ inserted' = [inserted EXCEPT ![w] = @ + batch[w]]
          /\ awaiting' = Append(awaiting, w)
          /\ wpc' = [wpc EXCEPT ![w] = "lock"]
          /\ UNCHANGED failure
       \/ /\ Fail(w)
          /\ UNCHANGED <<durable, pending, inserted, awaiting>>
    /\ UNCHANGED <<cfg, session, snapshot, main_pc, tasks, yielded, batch,
                   global_inserted, progress_lock, loaded, percent, left, lines>>

\* cur.executemany or conn.commit never returns (no timeout is set on the
\* connection): the thread stays in the call.
Hang(w) ==
    /\ wpc[w] \in {"executemany", "commit"}
    /\ db_calls' = CountCall(w)
    /\ wpc' = [wpc EXCEPT ![w] = "hung"]
    /\ UNCHANGED <<cfg, session, failure, snapshot, awaiting, main_pc, tasks,
                   yielded, inserted, batch, pending, durable, global_inserted,
                   progress_lock, loaded, percent, left, lines>>

\* The queue q without worker w.
Without(q, w) == SelectSeq(q, LAMBDA v : v # w)

\* Defect variant: the update is not wrapped in `with progress_lock:`.
AcquireUnlocked(w) ==
    /\ wpc[w] = "lock"
    /\ loaded' = [loaded EXCEPT ![w] = global_inserted]
    /\ awaiting' = Without(awaiting, w)
    /\ wpc' = [wpc EXCEPT ![w] = "store"]
    /\ UNCHANGED <<cfg, session, failure, snapshot, main_pc, tasks, yielded,
                   inserted, batch, pending, durable, db_calls, global_inserted,
                   progress_lock, percent, left, lines>>

\* `with progress_lock:` is entered and global_inserted is read for the +=.
Acquire(w) ==
    /\ wpc[w] = "lock"
    /\ LockFree
    /\ progress_lock' = w
    /\ loaded' = [loaded EXCEPT ![w] = global_inserted]
    /\ awaiting' = Without(awaiting, w)
    /\ wpc' = [wpc EXCEPT ![w] = "store"]
    /\ UNCHANGED <<cfg, session, failure, snapshot, main_pc, tasks, yielded,
                   inserted, batch, pending, durable, db_calls, global_inserted,
                   percent, left, lines>>

\* Defect variant: the `with` block ends after the computations, the line is
\* printed outside it.
StoreAndRelease(w) ==
    /\ wpc[w] = "store"
    /\ global_inserted' = loaded[w] + batch[w]
    /\ percent' = [percent EXCEPT ![w] = Percent(global_inserted')]
    /\ left' = [left EXCEPT ![w] = TOTAL_RECORDS - global_inserted']
    /\ wpc' = [wpc EXCEPT ![w] = "print"]
    /\ progress_lock' = NoOwner
    /\ UNCHANGED <<cfg, session, failure, snapshot, awaiting, main_pc, tasks,
                   yielded, inserted, batch, pending, durable, db_calls, loaded,
                   lines>>

\* Defect variant: the counter is advanced by BATCH_SIZE, not by len(batch).
StoreBatchSize(w) ==
    /\ wpc[w] = "store"
    /\ global_inserted' = loaded[w] + BATCH_SIZE
    /\ percent' = [percent EXCEPT ![w] = Percent(global_inserted')]
    /\ left' = [left EXCEPT ![w] = TOTAL_RECORDS - global_inserted']
    /\ wpc' = [wpc EXCEPT ![w] = "print"]
    /\ UNCHANGED <<cfg, session, failure, snapshot, awaiting, main_pc, tasks,
                   yielded, inserted, batch, pending, durable, db_calls,
                   progress_lock, loaded, lines>>

\* global_inserted += len(batch) is stored; percent and left are computed.
Store(w) ==
    /\ wpc[w] = "store"
    /\ global_inserted' = loaded[w] + batch[w]
    /\ percent' = [percent EXCEPT ![w] = Percent(global_inserted')]
    /\ left' = [left EXCEPT ![w] = TOTAL_RECORDS - global_inserted']
    /\ wpc' = [wpc EXCEPT ![w] = "print"]
    /\ UNCHANGED <<cfg, session, failure, snapshot, awaiting, main_pc, tasks,
                   yielded, inserted, batch, pending, durable, db_calls,
                   progress_lock, loaded, lines>>

\* The progress line of this batch.
ProgressLine(w) ==
    [worker_id |-> w, inserted |-> global_inserted, percent |-> percent[w], left |-> left[w]]

\* Defect variant: the lock is taken with acquire() and never released.
PublishNoRelease(w) ==
    /\ wpc[w] = "print"
    /\ lines' = Printed(ProgressLine(w))
    /\ wpc' = [wpc EXCEPT ![w] = LoopPc(total(w), inserted[w])]
    /\ batch' = [batch EXCEPT ![w] =
                    IF inserted[w] < total(w) THEN BatchLen(total(w), inserted[w]) ELSE 0]
    /\ UNCHANGED <<cfg, session, failure, snapshot, awaiting, main_pc, tasks,
                   yielded, inserted, pending, durable, db_calls,
                   global_inserted, progress_lock, loaded, percent, left>>

\* print(...), the lock is released, then `while inserted < total` and the
\* next batch.
Publish(w) ==
    /\ wpc[w] = "print"
    /\ lines' = Printed(ProgressLine(w))
    /\ progress_lock' = NoOwner
    /\ wpc' = [wpc EXCEPT ![w] = LoopPc(total(w), inserted[w])]
    /\ batch' = [batch EXCEPT ![w] =
                    IF inserted[w] < total(w) THEN BatchLen(total(w), inserted[w]) ELSE 0]
    /\ UNCHANGED <<cfg, session, failure, snapshot, awaiting, main_pc, tasks,
                   yielded, inserted, pending, durable, db_calls,
                   global_inserted, loaded, percent, left>>

\* cur.execute("SET UNIQUE_CHECKS=1;")
RestoreUniqueChecks(w) ==
    /\ wpc[w] = "teardown"
    /\ \/ /\ unique_checks' = [unique_checks EXCEPT ![w] = 1]
          /\ wpc' = [wpc EXCEPT ![w] = "restore_foreign_key_checks"]
          /\ UNCHANGED failure
       \/ /\ Fail(w)
          /\ UNCHANGED unique_checks
    /\ UNCHANGED <<cfg, foreign_key_checks, closed, snapshot, awaiting, main_pc, tasks, yielded,
                   inserted, batch, pending, durable, db_calls, global_inserted,
                   progress_lock, loaded, percent, left, lines>>

\* Defect variant: the second SET statement of the teardown is left out.
RestoreForeignKeyChecksSkipped(w) ==
    /\ wpc[w] = "restore_foreign_key_checks"
    /\ wpc' = [wpc EXCEPT ![w] = "teardown_commit"]
    /\ UNCHANGED <<cfg, session, failure, snapshot, awaiting, main_pc, tasks, yielded,
                   inserted, batch, pending, durable, db_calls, global_inserted,
                   progress_lock, loaded, percent, left, lines>>

\* cur.execute("SET FOREIGN_KEY_CHECKS=1;")
RestoreForeignKeyChecks(w) ==
    /\ wpc[w] = "restore_foreign_key_checks"
    /\ \/ /\ foreign_key_checks' = [foreign_key_checks EXCEPT ![w] = 1]
          /\ wpc' = [wpc EXCEPT ![w] = "teardown_commit"]
          /\ UNCHANGED failure
       \/ /\ Fail(w)
          /\ UNCHANGED foreign_key_checks
    /\ UNCHANGED <<cfg, unique_checks, closed, snapshot, awaiting, main_pc, tasks, yielded,
                   inserted, batch, pending, durable, db_calls, global_inserted,
                   progress_lock, loaded, percent, left, lines>>

\* conn.commit() of the teardown.
TeardownCommit(w) ==
    /\ wpc[w] = "teardown_commit"
    /\ \/ /\ wpc' = [wpc EXCEPT ![w] = "close"]
          /\ UNCHANGED failure
       \/ Fail(w)
    /\ UNCHANGED <<cfg, session, snapshot, awaiting, main_pc, tasks, yielded,
                   inserted, batch, pending, durable, db_calls, global_inserted,
                   progress_lock, loaded, percent, left, lines>>

\* cur.close(), conn.close()
Close(w) ==
    /\ wpc[w] = "close"
    /\ \/ /\ closed' = [closed EXCEPT ![w] = TRUE]
          /\ wpc' = [wpc EXCEPT ![w] = "return"]
          /\ UNCHANGED failure
       \/ /\ Fail(w)
          /\ UNCHANGED closed
    /\ UNCHANGED <<cfg, unique_checks, foreign_key_checks, snapshot, awaiting, main_pc, tasks, yielded,
                   inserted, batch, pending, durable, db_calls, global_inserted,
                   progress_lock, loaded, percent, left, lines>>

\* What insert_worker returns: (worker_id, total).
Result(w) == <<tasks[w].worker_id, total(w)>>

\* The "completed" line is printed and insert_worker returns
\* (worker_id, total): the future is finished with Result(w), which
\* as_completed's waiter records.
Return(w) ==
    /\ wpc[w] = "return"
    /\ wpc' = [wpc EXCEPT ![w] = "Done"]
    /\ completed' = IF main_pc = "collect" THEN Append(completed, w) ELSE completed
    /\ UNCHANGED <<cfg, session, error, first_failed, snapshot, awaiting,
                   main_pc, tasks, yielded, inserted, batch, pending, durable,
                   db_calls, global_inserted, progress_lock, loaded, percent,
                   left, lines>>

----------------------------------------------------------------------------

\* A step of worker w in which a call of its returns or raises.
WorkerStep(w) ==
    /\ w \in Workers
    /\ \/ Connect(w)
       \/ UniqueChecksOff(w)
       \/ ForeignKeyChecksOff(w)
       \/ SetupCommit(w)
       \/ Executemany(w)
       \/ Commit(w)
       \/ Acquire(w)
       \/ Store(w)
       \/ Publish(w)
       \/ RestoreUniqueChecks(w)
       \/ RestoreForeignKeyChecks(w)
       \/ TeardownCommit(w)
       \/ Close(w)
       \/ Return(w)

\* A step of main().
MainStep ==
    \/ Submit
    \/ StartCollect
    \/ ExitOk
    \/ ExitErr
    \/ \E w \in Workers : CollectResult(w) \/ CollectError(w)

Next ==
    \/ Submit
    \/ StartCollect
    \/ ExitOk
    \/ ExitErr
    \/ \E w \in Workers :
        \/ CollectResult(w)
        \/ CollectError(w)
        \/ Connect(w)
        \/ UniqueChecksOff(w)
        \/ ForeignKeyChecksOff(w)
        \/ SetupCommit(w)
        \/ Executemany(w)
        \/ Commit(w)
        \/ Hang(w)
        \/ Acquire(w)
        \/ Store(w)
        \/ Publish(w)
        \/ RestoreUniqueChecks(w)
        \/ RestoreForeignKeyChecks(w)
        \/ TeardownCommit(w)
        \/ Close(w)
        \/ Return(w)

Spec == Init /\ [][Next]_vars

\* main() up to the end of its submit loop, the workers not yet scheduled.
NextRanges == Submit

SpecRanges == InitRanges /\ [][NextRanges]_vars

SpecSparse == InitSparse /\ [][Next]_vars

\* The part of a run explored when the run need not end.
Explored ==
    /\ \A w \in Workers : db_calls[w] <= MaxCalls
    /\ Len(lines) <= MaxLines

\* The steps of the program, followed as far as Explored.
NextEmptyBatch == Next /\ Explored'

SpecEmptyBatch == InitEmptyBatch /\ [][NextEmptyBatch]_vars

\* The scheduler runs every thread that can run: main() and each worker
\* take their next step when it stays possible.  A call that hangs is not
\* made to return.
FairSpec ==
    /\ Spec
    /\ WF_vars(MainStep)
    /\ \A w \in 1..MaxThreads : WF_vars(WorkerStep(w))

----------------------------------------------------------------------------
(* Properties *)

AllTerminal == \A w \in Workers : wpc[w] \in Terminal

Submitted == Len(tasks) = THREADS

RangeSize(w) == tasks[w].end_index - tasks[w].start_index

RangeSizes == [w \in Workers |-> RangeSize(w)]

\* C1: the ranges main() hands to the workers partition [0, TOTAL_RECORDS):
\* every range has start_index <= end_index, the first starts at 0, each
\* ends where the next starts, the last ends at TOTAL_RECORDS, and the
\* sizes sum to TOTAL_RECORDS.
C1_RangesPartition ==
    Submitted =>
        /\ \A w \in Workers : tasks[w].start_index <= tasks[w].end_index
        /\ tasks[1].start_index = 0
        /\ \A w \in 1..(THREADS - 1) : tasks[w].end_index = tasks[w + 1].start_index
        /\ tasks[THREADS].end_index = TOTAL_RECORDS
        /\ SumWorkers(RangeSizes) = TOTAL_RECORDS

\* C2: once every worker is Done or Failed, global_inserted is the sum of
\* the sizes of all committed batches: no increment was lost.
C2_NoLostUpdate ==
    AllTerminal => global_inserted = SumWorkers(durable)

\* Two workers have committed rows, one of them several batches, and all
\* workers have ended.
C2_Witness ==
    /\ AllTerminal
    /\ \E v, w \in Workers :
        /\ v # w
        /\ durable[v] > 0
        /\ durable[w] > 0
        /\ db_calls[w] >= 4

\* C3: the counter stays within 0..TOTAL_RECORDS in every state.
C3_CounterInRange ==
    /\ 0 <= global_inserted
    /\ global_inserted <= TOTAL_RECORDS

\* The counter has reached TOTAL_RECORDS through the batches of several workers.
C3_Witness ==
    /\ TOTAL_RECORDS >= 3
    /\ THREADS >= 2
    /\ global_inserted = TOTAL_RECORDS
    /\ Len(lines) >= 2

\* Rows of worker w that have been added to the counter: all it committed,
\* except the committed batch whose increment is still to come.
Credited(w) ==
    IF wpc[w] \in {"lock", "store"} THEN durable[w] - batch[w] ELSE durable[w]

\* C4: the counter is made of committed batches only, each counted once:
\* it equals the committed rows of every worker less the committed batch a
\* worker has yet to add, and so never exceeds the rows committed.
C4_IncrementPerCommittedBatch ==
    /\ global_inserted = SumWorkers([w \in Workers |-> Credited(w)])
    /\ global_inserted <= SumWorkers(durable)
    /\ \A w \in Workers : wpc[w] \in {"lock", "store"} => batch[w] <= durable[w]

\* A worker has committed a batch and not yet counted it, while the counter
\* already holds batches of others.
C4_Witness ==
    \E w \in Workers :
        /\ wpc[w] = "store"
        /\ global_inserted > 0
        /\ global_inserted < SumWorkers(durable)

\* C5: when main() has printed the final summary, the workers together
\* have committed exactly TOTAL_RECORDS rows and the counter is TOTAL_RECORDS.
C5_SummaryMeansAllRows ==
    main_pc = "returned" =>
        /\ SumWorkers(durable) = TOTAL_RECORDS
        /\ global_inserted = TOTAL_RECORDS

\* The summary is printed after a run of several workers and batches.
C5_Witness ==
    /\ main_pc = "returned"
    /\ TOTAL_RECORDS >= 3
    /\ THREADS >= 2
    /\ Len(lines) >= 3

\* C6: a batch becomes visible as a whole or not at all: in every step the
\* committed rows of a worker stay as they are, or grow by exactly the size
\* of the batch whose commit succeeds in that step.
C6_BatchAllOrNothing ==
    [][\A w \in Workers :
          \/ durable'[w] = durable[w]
          \/ /\ wpc[w] = "commit"
             /\ wpc'[w] = "lock"
             /\ durable'[w] = durable[w] + batch[w]]_vars

\* A worker failed in the middle of a batch, after an earlier batch of it
\* was committed: the rows it wrote of the failed batch are not visible.
C6_Witness ==
    \E w \in Workers :
        /\ wpc[w] = "Failed"
        /\ pending[w] > 0
        /\ pending[w] < batch[w]
        /\ durable[w] > 0
        /\ durable[w] = inserted[w]

\* C7: main() has returned or raised only when every worker is Done or Failed.
C7_ReportAfterAllTerminal ==
    main_pc \in {"returned", "raised"} => AllTerminal

\* main() raised for a failed worker, and a sibling whose result it never
\* collected has finished its range.
C7_Witness ==
    /\ main_pc = "raised"
    /\ \E w \in Workers :
        /\ w \notin yielded
        /\ wpc[w] = "Done"
        /\ durable[w] > 0

\* C8: in a run in which a worker failed main() never leaves the `with`
\* block normally and never prints the summary: it can end only by raising.
C8_FailureFailsRun ==
    (\E w \in Workers : wpc[w] = "Failed") =>
        /\ main_pc # "returned"
        /\ main_pc # "exit_ok"

\* One worker failed, another completed its whole range, and main() raised.
C8_Witness ==
    /\ main_pc = "raised"
    /\ \E v, w \in Workers :
        /\ wpc[v] = "Failed"
        /\ wpc[w] = "Done"
        /\ durable[w] > 0
        /\ durable[w] = RangeSize(w)

\* C9: a failed executemany or commit ends the worker: from there it stays
\* Failed and issues no database call, the failing step changes neither
\* the counter nor the progress lines nor the committed rows, no later line
\* is the failed worker's, and committed rows never decrease.
C9_FailFast ==
    [][\A w \in Workers :
          /\ wpc[w] = "Failed" =>
                /\ wpc'[w] = "Failed"
                /\ db_calls'[w] = db_calls[w]
                /\ pending'[w] = pending[w]
                /\ lines' # lines => lines'[Len(lines')].worker_id # w
          /\ wpc[w] = "executemany" /\ wpc'[w] # "executemany" =>
                wpc'[w] \in {"commit", "Failed", "hung"}
          /\ wpc[w] = "commit" /\ wpc'[w] # "commit" =>
                wpc'[w] \in {"lock", "Failed", "hung"}
          /\ wpc[w] \in {"executemany", "commit"} /\ wpc'[w] = "Failed" =>
                /\ global_inserted' = global_inserted
                /\ lines' = lines
                /\ durable' = durable
          /\ durable'[w] >= durable[w]]_vars

\* A worker failed on a later batch; its earlier batch and the rows of a
\* sibling that went on to finish are still committed.
C9_Witness ==
    \E v, w \in Workers :
        /\ wpc[v] = "Failed"
        /\ db_calls[v] >= 3
        /\ durable[v] > 0
        /\ wpc[w] = "Done"
        /\ durable[w] > 0
        /\ global_inserted = durable[v] + durable[w]

\* C10: down the printed progress lines the inserted value and the percent
\* never decrease, and every line's left is TOTAL_RECORDS minus its inserted.
C10_ProgressMonotone ==
    /\ \A i \in 1..(Len(lines) - 1) :
        /\ lines[i].inserted <= lines[i + 1].inserted
        /\ lines[i].percent <= lines[i + 1].percent
    /\ \A i \in 1..Len(lines) :
        lines[i].left = TOTAL_RECORDS - lines[i].inserted

\* Three lines or more were printed, by workers taking turns.
C10_Witness ==
    /\ Len(lines) >= 3
    /\ \E i \in 1..(Len(lines) - 2) :
        /\ lines[i].worker_id # lines[i + 1].worker_id
        /\ lines[i + 1].worker_id # lines[i + 2].worker_id

\* The rows line k adds to the line before it.
LineRows(k) == lines[k].inserted - (IF k = 1 THEN 0 ELSE lines[k - 1].inserted)

RECURSIVE PublishedUpTo(_, _)
PublishedUpTo(w, k) ==
    IF k = 0 THEN 0
    ELSE PublishedUpTo(w, k - 1) + (IF lines[k].worker_id = w THEN LineRows(k) ELSE 0)

\* The rows the progress lines of worker w account for.
PublishedRows(w) == PublishedUpTo(w, Len(lines))

\* The workers in queue q.
InQueue(q) == {q[k] : k \in 1..Len(q)}

\* C11 as stated: snapshots follow the commit order of their batches, so
\* the worker that enters the progress section is always the one whose
\* commit is the oldest not yet published.
C11_CommitOrder ==
    [][\A w \in Workers :
          wpc[w] = "lock" /\ wpc'[w] = "store" => Head(awaiting) = w]_vars

\* C11 amended: snapshots follow the order in which the workers enter the
\* progress section.  Each line has a larger inserted than the one before,
\* the lines of a worker account for rows it has committed, for all of
\* them unless its last committed batch still waits for or is in the
\* section, and at most one committed batch of a worker is unpublished.
C11_LockOrder ==
    /\ \A k \in 1..(Len(lines) - 1) : lines[k].inserted < lines[k + 1].inserted
    /\ InQueue(awaiting) = {w \in Workers : wpc[w] = "lock"}
    /\ \A w \in Workers :
        /\ PublishedRows(w) <= durable[w]
        /\ durable[w] - PublishedRows(w) =
              IF wpc[w] \in {"lock", "store", "print"} THEN batch[w] ELSE 0

\* Two workers have committed and wait for the section, after lines were
\* printed: either of them may publish first.
C11_Witness ==
    /\ Len(awaiting) >= 2
    /\ Len(lines) >= 1

\* Both integrity checks of worker w's session are off (on).
ChecksOff(w) == unique_checks[w] = 0 /\ foreign_key_checks[w] = 0

ChecksOn(w) == unique_checks[w] = 1 /\ foreign_key_checks[w] = 1

\* C12: on the normal path a worker first commits its last batch, then
\* re-enables UNIQUE_CHECKS, then FOREIGN_KEY_CHECKS, then commits, then
\* closes, then returns: while it inserts the checks are off, the teardown
\* commit and the close see the whole range committed and the checks on,
\* the connection is closed before the worker is Done, Done is entered
\* from the return after the close alone, and from the first re-enabled
\* check on the worker issues no insert or batch commit.
C12_TeardownOrder ==
    /\ [](\A w \in Workers :
            /\ wpc[w] \in {"executemany", "commit", "hung", "lock", "store",
                           "print", "teardown"} => ChecksOff(w)
            /\ wpc[w] \in {"teardown", "restore_foreign_key_checks",
                           "teardown_commit", "close", "return", "Done"} =>
                  /\ pending[w] = 0
                  /\ inserted[w] >= total(w)
                  /\ durable[w] = inserted[w]
            /\ wpc[w] = "restore_foreign_key_checks" =>
                  unique_checks[w] = 1 /\ foreign_key_checks[w] = 0
            /\ wpc[w] \in {"teardown_commit", "close", "return", "Done"} => ChecksOn(w)
            /\ closed[w] <=> wpc[w] \in {"return", "Done"})
    /\ [][\A w \in Workers :
            /\ wpc'[w] = "Done" /\ wpc[w] # "Done" => wpc[w] = "return"
            /\ wpc'[w] = "return" /\ wpc[w] # "return" => wpc[w] = "close"
            /\ wpc'[w] = "close" /\ wpc[w] # "close" => wpc[w] = "teardown_commit"
            /\ wpc'[w] = "teardown_commit" /\ wpc[w] # "teardown_commit" =>
                  wpc[w] = "restore_foreign_key_checks"
            /\ wpc'[w] = "restore_foreign_key_checks"
                  /\ wpc[w] # "restore_foreign_key_checks" => wpc[w] = "teardown"
            /\ wpc[w] \in {"restore_foreign_key_checks", "teardown_commit",
                           "close", "return", "Done"} =>
                  /\ db_calls'[w] = db_calls[w]
                  /\ durable'[w] = durable[w]]_vars

\* A worker is Done after several batches: checks restored, connection closed.
C12_Witness ==
    \E w \in Workers :
        /\ wpc[w] = "Done"
        /\ db_calls[w] >= 4
        /\ ChecksOn(w)
        /\ closed[w]

\* Worker w has ended, or is held in a database call that never returns.
Stopped(w) == w \in Workers => wpc[w] \in {"Done", "Failed", "hung"}

\* C13: a worker is never held up by another worker's hanging call.  Under
\* fair scheduling every worker goes on until it is Done, unless one of its
\* own calls raises or hangs, whatever calls of the others hang; a worker
\* that is Done has committed its whole range; and while some worker hangs
\* main() neither prints the summary nor raises.
C13_HangStallsOneWorker ==
    /\ \A w \in 1..MaxThreads : <>Stopped(w)
    /\ [](\A w \in Workers :
            wpc[w] = "Done" => durable[w] = inserted[w] /\ inserted[w] >= total(w))
    /\ []((\E h \in Workers : wpc[h] = "hung") => main_pc \notin {"returned", "raised"})

\* One worker hangs in its first call while another, that started its
\* inserts afterwards, has committed its range and is Done, its result
\* collected by main().
C13_Witness ==
    \E h, w \in Workers :
        /\ wpc[h] = "hung"
        /\ db_calls[h] = 1
        /\ wpc[w] = "Done"
        /\ durable[w] > 0
        /\ w \in yielded
        /\ main_pc = "collect"

\* C14: every batch handed to executemany is non-empty, of size
\* min(BATCH_SIZE, remaining) <= BATCH_SIZE, smaller than BATCH_SIZE only
\* when it is the last of the range, and the batches of a worker that is
\* Done sum to end_index - start_index.
C14_BatchSizes ==
    \A w \in Workers :
        /\ wpc[w] \in {"executemany", "commit"} =>
              /\ batch[w] >= 1
              /\ batch[w] = Min(BATCH_SIZE, total(w) - inserted[w])
              /\ batch[w] <= BATCH_SIZE
              /\ batch[w] < BATCH_SIZE => inserted[w] + batch[w] = total(w)
        /\ wpc[w] = "Done" => inserted[w] = RangeSize(w)

\* C15: the worker loop ends when its range is exhausted: every pass of
\* the loop whose commit returns takes `inserted` nearer to `total`, by one
\* record at least and never beyond it, so that a worker makes at most
\* `total` passes, of one executemany and one commit each, before it is
\* Done or Failed.
C15_LoopAdvances ==
    /\ [](\A w \in 1..Len(tasks) :
            db_calls[w] <= 2 * (IF total(w) > 0 THEN total(w) ELSE 0))
    /\ [][\A w \in Workers :
            wpc[w] = "commit" /\ wpc'[w] = "lock" =>
                /\ inserted'[w] > inserted[w]
                /\ inserted'[w] <= total(w)]_vars

\* The number of records with start_index <= index < end_index.
RecordsInRange(w) ==
    Cardinality({r \in 0..(TOTAL_RECORDS - 1) :
                    tasks[w].start_index <= r /\ r < tasks[w].end_index})

\* C16: a worker that is Done returns (worker_id, n) with n the number of
\* records of its range, which is the number of rows it has committed.
C16_ResultIsRowsInserted ==
    \A w \in Workers :
        wpc[w] = "Done" =>
            /\ Result(w)[1] = w
            /\ Result(w)[2] = RecordsInRange(w)
            /\ Result(w)[2] = durable[w]

\* ceil(TOTAL_RECORDS / THREADS), from the remainder.
CeilPerThread ==
    IF TOTAL_RECORDS % THREADS = 0
    THEN TOTAL_RECORDS \div THREADS
    ELSE TOTAL_RECORDS \div THREADS + 1

\* The ranges main() is to submit, the worker of loop index i numbered i + base.
RangesFrom(base) ==
    [k \in 1..THREADS |->
        [worker_id |-> k - 1 + base,
         start_index |-> (k - 1) * CeilPerThread,
         end_index |-> Min(k * CeilPerThread, TOTAL_RECORDS)]]

\* The ranges of the example: 17 records over 4 threads.
ExampleRanges(base) ==
    <<[worker_id |-> base, start_index |-> 0, end_index |-> 5],
      [worker_id |-> base + 1, start_index |-> 5, end_index |-> 10],
      [worker_id |-> base + 2, start_index |-> 10, end_index |-> 15],
      [worker_id |-> base + 3, start_index |-> 15, end_index |-> 17]>>

\* C17 as stated: one worker per i in [0, THREADS), with worker_id = i and
\* the range [i*per_thread, min((i+1)*per_thread, TOTAL_RECORDS)); for 17
\* records and 4 threads the workers 0..3 get [0,5) [5,10) [10,15) [15,17).
C17_RangesZeroBased ==
    Submitted =>
        /\ tasks = RangesFrom(0)
        /\ TOTAL_RECORDS = 17 /\ THREADS = 4 => tasks = ExampleRanges(0)

\* C17 amended: the worker of loop index i has worker_id = i + 1; the
\* ranges are as stated, and for 17 records and 4 threads it is the workers
\* 1..4 that get [0,5) [5,10) [10,15) [15,17).
C17_RangesOneBased ==
    /\ Len(tasks) <= THREADS
    /\ \A k \in 1..Len(tasks) : tasks[k] = RangesFrom(1)[k] /\ wpc[k] # "unsubmitted"
    /\ \A k \in (Len(tasks) + 1)..THREADS : wpc[k] = "unsubmitted"
    /\ Submitted /\ TOTAL_RECORDS = 17 /\ THREADS = 4 => tasks = ExampleRanges(1)

\* All four workers of the example have been submitted.
C17_Witness ==
    /\ TOTAL_RECORDS = 17
    /\ THREADS = 4
    /\ Submitted
    /\ main_pc = "as_completed"

\* The worker whose error left main().
Surfaced == CHOOSE w \in yielded : wpc[w] = "Failed"

\* C18 as stated: the error that leaves main() is that of the worker that
\* failed first in time.
C18_FirstFailureSurfaces ==
    main_pc \in {"exit_err", "raised"} => Surfaced = first_failed

\* C18 amended: the error that leaves main() is that of the failed worker
\* whose future as_completed yields first.  That is the first to fail in
\* time, unless it and the first to fail had both failed before
\* as_completed was called: of those it yields any first.
C18_SurfacedError ==
    [][\A w \in Workers :
          main_pc = "collect" /\ main_pc' = "exit_err" /\ w \in yielded' \ yielded =>
              /\ wpc[w] = "Failed"
              /\ error[w] # "none"
              /\ \/ w = first_failed
                 \/ w \in snapshot /\ first_failed \in snapshot]_vars

\* Two workers failed and main() raised the error of the one that failed later.
C18_Witness ==
    /\ main_pc = "raised"
    /\ Cardinality({w \in Workers : wpc[w] = "Failed"}) >= 2
    /\ Surfaced # first_failed

\* C19: a worker that failed in executemany or in the batch commit has the
\* integrity checks of its session still off and has closed nothing.
C19_NoTeardownOnFailure ==
    \A w \in Workers :
        wpc[w] = "Failed" /\ error[w] \in {"executemany", "commit"} =>
            /\ ChecksOff(w)
            /\ ~closed[w]

\* A worker failed in the commit of a later batch, and main() has raised.
C19_Witness ==
    \E w \in Workers :
        /\ wpc[w] = "Failed"
        /\ error[w] = "commit"
        /\ durable[w] > 0
        /\ main_pc = "raised"

\* The workers inside the `with progress_lock:` block.
InSection == {w \in Workers : wpc[w] \in {"store", "print"}}

\* C20: the lock is held by a worker exactly while it is between the
\* counter update and the end of the print, so by one worker at most and
\* never during generation, insert or commit; what the worker is about to
\* print is computed from the counter value its own increment produced;
\* every printed percent and left agree with the printed counter value;
\* and the lock is free when all workers have ended.
C20_CriticalSection ==
    /\ Cardinality(InSection) <= 1
    /\ \A w \in Workers : progress_lock = w <=> w \in InSection
    /\ progress_lock = NoOwner <=> InSection = {}
    /\ \A w \in Workers :
        wpc[w] = "print" =>
            /\ global_inserted = loaded[w] + batch[w]
            /\ percent[w] = Percent(global_inserted)
            /\ left[w] = TOTAL_RECORDS - global_inserted
    /\ \A k \in 1..Len(lines) :
        /\ lines[k].percent = Percent(lines[k].inserted)
        /\ lines[k].left = TOTAL_RECORDS - lines[k].inserted
    /\ AllTerminal => progress_lock = NoOwner

\* One worker is about to print inside the section while another waits
\* for the lock with a committed batch.
C20_Witness ==
    \E v, w \in Workers :
        /\ wpc[w] = "print"
        /\ progress_lock = w
        /\ wpc[v] = "lock"
        /\ Len(lines) >= 1

====
